---------------------------- MODULE Spec2Model ----------------------------
(***************************************************************************)
(* A model of the trading simulation: the price generator (data.py), the   *)
(* indicators (indicators.py) and the three strategies (strategy.py).      *)
(*                                                                         *)
(* Numbers are integers.  A price, a cash amount, a fee and a share count  *)
(* are integers; an indicator value (a mean, an oscillator level) is an    *)
(* exact fraction <<numerator, denominator>> with a positive denominator,  *)
(* and <<0, 0>> is the undefined value (np.nan).  Arrays are functions on  *)
(* 0..len-1, as in the source.                                             *)
(***************************************************************************)
EXTENDS Integers, Sequences, FiniteSets, TLC

(***************************************************************************)
(* Bounds of the model.                                                    *)
(***************************************************************************)
GenDays == 3        \* generate_stock_prices: number_of_days in 1..GenDays
GenStocks == 2      \* generate_stock_prices: N in 1..GenStocks
GenPrice == 2       \* initial prices in 1..GenPrice
MaxVol == 1         \* volatility in 0..MaxVol; a daily step is in -vol..vol
MaxShock == 1       \* the news magnitude m is in -MaxShock..MaxShock
MaLen == 3          \* moving_average: a column of 1..MaLen prices
MaPrice == 2        \* moving_average: prices in 0..MaPrice, or NaN
MaWeight == 2       \* moving_average: weights in 1..MaWeight
MaxDays == 4        \* a strategy's price matrix has 1..MaxDays days,
MaxStocks == 2      \*   1..MaxStocks stocks
MaxCells == 6       \*   and at most MaxCells prices,
MaxPrice == 2       \*   each in 1..MaxPrice or NaN
RandCells == 4      \* the random strategy: at most RandCells prices
MaxPeriod == 2      \* period, period_sma, period_fma in 1..MaxPeriod
MaxCool == 1        \* cool_down in 0..MaxCool
TrendDays == 5      \* a rising series has 3..TrendDays days,
TrendPrice == 6     \*   its prices in 1..TrendPrice
PairDays == 5       \* two runs: matrices of 2..PairDays days

VARIABLES
    \* generate_stock_prices
    gpc,            \* "loop" | "done"
    gday,           \* the day loop's index
    volatility,     \* the volatility list
    stock_prices,   \* [day -> [stock -> price]]
    drift,          \* [day -> [stock -> accumulated news drift]]
    \* moving_average
    mpc,            \* "call" | "returned"
    ma_price,       \* the argument stock_price: one column of prices
    ma_n,           \* the argument n
    ma_weights,     \* the argument weights (<<>> is the default [])
    ma,             \* the returned array
    \* a run of a strategy
    strat,          \* "random" | "crossing_averages" | "momentum"
    prices,         \* the argument stock_prices: [day -> [stock -> price]]
    par,            \* the other arguments of the strategy
    pc,             \* "loop" | "buy" | "sell" | "final" | "done" | "error" | "capped"
    stock,          \* the stock loop's index
    day,            \* the day loop's index
    portfolio,      \* [cash, shares_held], each per stock
    ledger,         \* the ledger file: one record per executed trade
    issued,         \* the calls of buy and sell made so far (history)
    last,           \* per stock, the last call made for it (history)
    \* two runs on two price matrices, one after the other
    phase,          \* 0: a single run; 1, 2: the first, the second run
    alt,            \* the price matrix of the other run
    logA            \* the calls the first run made

genVars == <<gpc, gday, volatility, stock_prices, drift>>

maVars == <<mpc, ma_price, ma_n, ma_weights, ma>>

runVars == <<pc, stock, day, portfolio, ledger, issued, last>>

stratVars == <<strat, prices, par, runVars, phase, alt, logA>>

vars == <<genVars, maVars, stratVars>>

(***************************************************************************)
(* np.nan in an array of prices: a value no price takes.  Every comparison *)
(* and every sum below tests for it first.                                 *)
(***************************************************************************)
NaN == -1000

IsNaN(x) == x = NaN

Min(a, b) == IF a <= b THEN a ELSE b

Max(a, b) == IF a >= b THEN a ELSE b

\* The undefined indicator value, and the comparisons of two indicator values:
\* a comparison with np.nan is False.
NaNF == <<0, 0>>

IsNaNF(q) == q[2] = 0

Lt(a, b) == ~IsNaNF(a) /\ ~IsNaNF(b) /\ a[1] * b[2] < b[1] * a[2]

Le(a, b) == ~IsNaNF(a) /\ ~IsNaNF(b) /\ a[1] * b[2] <= b[1] * a[2]

Gt(a, b) == Lt(b, a)

Ge(a, b) == Le(b, a)

RECURSIVE SumSeq(_)
SumSeq(xs) == IF xs = <<>> THEN 0 ELSE xs[1] + SumSeq(Tail(xs))

\* The Python slice a[lo:hi] of an array a (0 <= lo), as a sequence.
Slice(a, lo, hi) ==
    LET len == Cardinality(DOMAIN a)
        top == Min(hi, len)
    IN  [i \in 1..Max(top - lo, 0) |-> a[lo + i - 1]]

HasNaN(xs) == \E i \in DOMAIN xs : IsNaN(xs[i])

(***************************************************************************)
(* data.py                                                                 *)
(***************************************************************************)

\* rng.integers(3, 15): the durations a piece of news can last.
NewsDurations == 3..14

\* news(chance, volatility, rng): None (the empty sequence here) or the list
\* [m * volatility] * duration.
news(vol) ==
    {<<>>} \cup
    { [i \in 1..duration |-> m * vol] :
        duration \in NewsDurations, m \in (-MaxShock)..MaxShock }

GenNumberOfDays == Cardinality(DOMAIN stock_prices)

GenN == Cardinality(DOMAIN volatility)

\* stock_prices <= 0, element by element.
Failed(sp, t, n) == sp[t][n] <= 0

\* np.argmax(stock_prices <= 0) of a two-dimensional array: no axis is given,
\* so the index is into the flattened (row-major) array.
ArgMaxFailed(sp, days, N) ==
    CHOOSE k \in 0..(days * N - 1) :
        /\ Failed(sp, k \div N, k % N)
        /\ \A j \in 0..(k - 1) : ~Failed(sp, j \div N, j % N)

\* Lines 80-82: stock_prices[np.argmax(stock_prices<=0):, :] = np.nan, applied
\* when np.any(stock_prices<=0).
FailureFill(sp, days, N) ==
    IF \E t \in 0..(days - 1), n \in 0..(N - 1) : Failed(sp, t, n)
    THEN LET first == ArgMaxFailed(sp, days, N)
         IN  [t \in 0..(days - 1) |->
                 IF t >= first THEN [n \in 0..(N - 1) |-> NaN] ELSE sp[t]]
    ELSE sp

NoCall == [op |-> "none", day |-> -1]

IdleStrat ==
    /\ strat = "none"
    /\ prices = <<>>
    /\ par = <<>>
    /\ pc = "idle"
    /\ stock = 0
    /\ day = 0
    /\ portfolio = <<>>
    /\ ledger = <<>>
    /\ issued = <<>>
    /\ last = <<>>
    /\ phase = 0
    /\ alt = <<>>
    /\ logA = <<>>

IdleMA ==
    /\ mpc = "idle"
    /\ ma_price = <<>>
    /\ ma_n = 0
    /\ ma_weights = <<>>
    /\ ma = <<>>

InitGen ==
    /\ IdleMA
    /\ IdleStrat
    /\ gpc = "loop"
    /\ gday = 1
    /\ \E days \in 1..GenDays, N \in 1..GenStocks :
         /\ volatility \in [0..(N - 1) -> 0..MaxVol]
         /\ \E initial_price \in [0..(N - 1) -> 1..GenPrice] :
              stock_prices =
                  [t \in 0..(days - 1) |->
                      IF t = 0 THEN initial_price ELSE [n \in 0..(N - 1) |-> 0]]
         /\ drift = [t \in 0..(days - 1) |-> [n \in 0..(N - 1) |-> 0]]

\* What one stock draws on one day: the step rng.normal(0, volatility) and the
\* news, of which lines 75-76 read current_drift[:duration] only, with
\* duration = min(len(current_drift), number_of_days - day).
DayDraws(vol, left) ==
    { <<step, SubSeq(impact, 1, Min(Len(impact), left))>> :
        step \in (-vol)..vol, impact \in news(vol) }

\* One iteration of the day loop (lines 66-78).
GenDay ==
    /\ gpc = "loop"
    /\ gday < GenNumberOfDays
    /\ LET left == GenNumberOfDays - gday
           all == UNION {DayDraws(volatility[n], left) : n \in 0..(GenN - 1)}
       IN  \E draw \in [0..(GenN - 1) -> all] :
             /\ \A n \in 0..(GenN - 1) : draw[n] \in DayDraws(volatility[n], left)
             /\ LET step(n) == draw[n][1]
                    current_drift(n) == draw[n][2]
                    newdrift ==
                        [t \in 0..(GenNumberOfDays - 1) |->
                            [n \in 0..(GenN - 1) |->
                                IF /\ current_drift(n) # <<>>
                                   /\ t >= gday
                                   /\ t < gday + Len(current_drift(n))
                                THEN drift[t][n] + current_drift(n)[t - gday + 1]
                                ELSE drift[t][n]]]
                IN  /\ drift' = newdrift
                    /\ stock_prices' =
                           [stock_prices EXCEPT ![gday] =
                               [n \in 0..(GenN - 1) |->
                                   stock_prices[gday - 1][n] + step(n) + newdrift[gday][n]]]
    /\ gday' = gday + 1
    /\ UNCHANGED <<gpc, volatility, maVars, stratVars>>

\* The failure fill and the return (lines 80-84).
GenReturn ==
    /\ gpc = "loop"
    /\ gday >= GenNumberOfDays
    /\ stock_prices' = FailureFill(stock_prices, GenNumberOfDays, GenN)
    /\ gpc' = "done"
    /\ UNCHANGED <<gday, volatility, drift, maVars, stratVars>>

NextGen == GenDay \/ GenReturn

SpecGen == InitGen /\ [][NextGen]_vars

\* C1: when generate_stock_prices returns, every stock's price is NaN on every
\* day from the first day on which some stock's price was <= 0 before the
\* failure fill.
C1_FailureCascade ==
    [][(gpc = "loop" /\ gpc' = "done") =>
          \A t \in 0..(GenNumberOfDays - 1) :
              (\E d0 \in 0..t, n0 \in 0..(GenN - 1) : stock_prices[d0][n0] <= 0)
                  => \A m \in 0..(GenN - 1) : IsNaN(stock_prices'[t][m])]_vars

(***************************************************************************)
(* indicators.py                                                           *)
(***************************************************************************)

\* np.average(a, weights=weights): the mean of a, or sum(a * weights) /
\* sum(weights); np.nan as soon as one element is np.nan.
average(a, w) ==
    IF HasNaN(a) \/ a = <<>> THEN NaNF
    ELSE IF w = <<>> THEN <<SumSeq(a), Len(a)>>
    ELSE <<SumSeq([i \in DOMAIN a |-> a[i] * w[i]]), SumSeq(w)>>

\* moving_average with the window stock_price[d-n+1:d], which leaves the
\* current day out.
moving_average_lagging(price, period, w) ==
    LET days == Cardinality(DOMAIN price)
    IN  [d \in 0..(days - 1) |->
            IF d < period - 1 THEN NaNF
            ELSE average(Slice(price, d - period + 1, d), w)]

\* moving_average(stock_price, n, weights), for n >= 1 (lines 18-29).
moving_average(price, period, w) ==
    LET days == Cardinality(DOMAIN price)
    IN  [d \in 0..(days - 1) |->
            IF d < period - 1 THEN NaNF
            ELSE average(Slice(price, d - period + 1, d + 1), w)]

IdleGen ==
    /\ gpc = "idle"
    /\ gday = 0
    /\ volatility = <<>>
    /\ stock_prices = <<>>
    /\ drift = <<>>

InitMA ==
    /\ IdleGen
    /\ IdleStrat
    /\ mpc = "call"
    /\ ma = <<>>
    /\ \E days \in 1..MaLen :
         /\ ma_price \in [0..(days - 1) -> (0..MaPrice) \cup {NaN}]
         /\ \E period \in 1..(days + 1) :
              /\ ma_n = period
              /\ ma_weights \in {<<>>} \cup [1..period -> 1..MaWeight]

\* A call of moving_average.
MovingAverage ==
    /\ mpc = "call"
    /\ ma' = moving_average(ma_price, ma_n, ma_weights)
    /\ mpc' = "returned"
    /\ UNCHANGED <<ma_price, ma_n, ma_weights, genVars, stratVars>>

NextMA == MovingAverage

SpecMA == InitMA /\ [][NextMA]_vars

\* The sum over i in 0..k-1 of w[i+1] * price[lo+i].
RECURSIVE WindowSum(_, _, _, _)
WindowSum(price, lo, k, w) ==
    IF k = 0 THEN 0
    ELSE WindowSum(price, lo, k - 1, w) + w[k] * price[lo + k - 1]

Ones(k) == [i \in 1..k |-> 1]

\* C6: for 1 <= n <= D, moving_average returns D entries; entry d < n-1 is NaN;
\* entry d >= n-1 is the mean of prices[d-n+1..d] (n * ma[d] is the window's
\* sum), equal to prices[d] when n = 1, and with weights it is the weighted
\* mean with weights[0] on the oldest price of the window.  (A window holding
\* a NaN price has no mean: its entry is NaN.)
C6_MovingAverage ==
    (mpc = "returned" /\ ma_n <= Cardinality(DOMAIN ma_price)) =>
        /\ DOMAIN ma = DOMAIN ma_price
        /\ \A d \in DOMAIN ma_price :
             LET lo == d - ma_n + 1
                 clean == \A j \in lo..d : ~IsNaN(ma_price[j])
                 w == IF ma_weights = <<>> THEN Ones(ma_n) ELSE ma_weights
             IN  /\ d < ma_n - 1 => IsNaNF(ma[d])
                 /\ (d >= ma_n - 1 /\ ~clean) => IsNaNF(ma[d])
                 /\ (d >= ma_n - 1 /\ clean) =>
                        /\ ma[d][2] > 0
                        /\ ma[d][1] * SumSeq(w) = WindowSum(ma_price, lo, ma_n, w) * ma[d][2]
                        /\ (ma_weights = <<>>) =>
                               ma_n * ma[d][1] = WindowSum(ma_price, lo, ma_n, Ones(ma_n)) * ma[d][2]
                        /\ (ma_weights = <<>> /\ ma_n = 1) =>
                               ma[d][1] = ma_price[d] * ma[d][2]

\* A weighted two-day average over three clean prices with unequal weights has
\* been returned, and its last entry is not the unweighted mean.
C6_Witness ==
    /\ mpc = "returned"
    /\ ma_n = 2
    /\ Cardinality(DOMAIN ma_price) = 3
    /\ ma_weights = <<1, 2>>
    /\ ma_price = [d \in 0..2 |-> IF d = 2 THEN 2 ELSE d]
    /\ ma[2] = <<5, 3>>

(***************************************************************************)
(* indicators.py: the oscillator                                           *)
(***************************************************************************)

\* Lines 50-60: the stochastic oscillator of the window w.  np.max and np.min
\* of a window holding np.nan are np.nan, and so is the level.
stochastic(w) ==
    IF HasNaN(w) THEN NaNF
    ELSE LET highest == CHOOSE x \in {w[i] : i \in DOMAIN w} :
                            \A i \in DOMAIN w : w[i] <= x
             lowest == CHOOSE x \in {w[i] : i \in DOMAIN w} :
                            \A i \in DOMAIN w : w[i] >= x
             delta == w[Len(w)] - lowest
             deltamax == highest - lowest
         IN  IF deltamax = 0 THEN NaNF ELSE <<delta, deltamax>>

\* Lines 63-84: the RSI of the window w.  A difference with np.nan is np.nan,
\* which is neither > 0 nor < 0: it is in neither average.  With P the sum and
\* cp the number of the positive differences, Q and cn those of the negative
\* ones, 1 - 1/(1 + (P/cp)/(Q/cn)) is P*cn / (P*cn + Q*cp).
RSI(w) ==
    LET idx == 1..(Len(w) - 1)
        known == {i \in idx : ~IsNaN(w[i]) /\ ~IsNaN(w[i + 1])}
        ups == {i \in known : w[i + 1] - w[i] > 0}
        downs == {i \in known : w[i + 1] - w[i] < 0}
        P == SumSeq([i \in idx |-> IF i \in ups THEN w[i + 1] - w[i] ELSE 0])
        Q == SumSeq([i \in idx |-> IF i \in downs THEN w[i] - w[i + 1] ELSE 0])
        cp == Cardinality(ups)
        cn == Cardinality(downs)
    IN  IF ups = {} /\ downs = {} THEN NaNF
        ELSE IF downs = {} THEN <<1, 1>>
        ELSE <<P * cn, P * cn + Q * cp>>

\* oscillator(stock_price, n, osc_type), for n >= 1 (lines 45-88).
oscillator(price, period, osc_type) ==
    LET days == Cardinality(DOMAIN price)
    IN  [d \in 0..(days - 1) |->
            IF d < period - 1 THEN NaNF
            ELSE LET w == Slice(price, d - period + 1, d + 1)
                 IN  IF osc_type = "stochastic" THEN stochastic(w)
                     ELSE IF osc_type = "RSI" THEN RSI(w)
                     ELSE <<0, 1>>]

(***************************************************************************)
(* The portfolio (trading_solution.process: create_portfolio, buy, sell).  *)
(* Its code is not among the source files: these definitions follow the    *)
(* specification's section 4.3.                                            *)
(***************************************************************************)

Days == Cardinality(DOMAIN prices)

NStocks == Cardinality(DOMAIN prices[0])

\* floor(a / b), b # 0.
FloorDiv(a, b) == IF b > 0 THEN a \div b ELSE (-a) \div (-b)

\* create: one cash pool per stock, zero shares each.
create_portfolio(N, amount) ==
    [cash |-> [s \in 0..(N - 1) |-> amount],
     shares_held |-> [s \in 0..(N - 1) |-> 0]]

\* The shares a buy purchases: floor((amount - fees) / price[day, stock]), and
\* none if that is <= 0 or the price is NaN.
BuyQuantity(d, s, amount) ==
    IF IsNaN(prices[d][s]) THEN 0
    ELSE Max(FloorDiv(amount - par.fees, prices[d][s]), 0)

\* The shares a sell sells: all held, and none if the price is NaN.
SellQuantity(pf, d, s) ==
    IF IsNaN(prices[d][s]) THEN 0 ELSE pf.shares_held[s]

\* buy: deduct shares*price + fees from the stock's cash pool, increment the
\* holdings.
buy(pf, d, s, shares) ==
    [pf EXCEPT !.cash[s] = @ - (shares * prices[d][s] + par.fees),
               !.shares_held[s] = @ + shares]

\* sell: add shares*price - fees to the stock's cash pool, zero the holdings.
sell(pf, d, s, shares) ==
    [pf EXCEPT !.cash[s] = @ + (shares * prices[d][s] - par.fees),
               !.shares_held[s] = 0]

LedgerRecord(op, d, s, shares) ==
    [day |-> d, stock |-> s, action |-> op, quantity |-> shares,
     price |-> prices[d][s], fees |-> par.fees]

\* The ledger and the history of calls are cut at these lengths.  A run that
\* ends makes at most one call per price and one final sell per stock.
MaxLedger == MaxCells + MaxStocks + 1

MaxIssued == MaxCells + MaxStocks + 1

\* A call of buy or sell for day d and stock s: "error" when d is not a row of
\* the price matrix (the price lookup raises IndexError), "capped" when the
\* ledger is full, and else the portfolio and the ledger after it.
Trade(op, d, s) ==
    IF d \notin 0..(Days - 1)
    THEN [status |-> "error", portfolio |-> portfolio, ledger |-> ledger, quantity |-> 0]
    ELSE LET shares == IF op = "buy" THEN BuyQuantity(d, s, par.amount)
                       ELSE SellQuantity(portfolio, d, s)
         IN  IF shares = 0
             THEN [status |-> "ok", portfolio |-> portfolio, ledger |-> ledger,
                   quantity |-> 0]
             ELSE IF Len(ledger) >= MaxLedger
             THEN [status |-> "capped", portfolio |-> portfolio, ledger |-> ledger,
                   quantity |-> 0]
             ELSE [status |-> "ok",
                   portfolio |-> IF op = "buy" THEN buy(portfolio, d, s, shares)
                                 ELSE sell(portfolio, d, s, shares),
                   ledger |-> Append(ledger, LedgerRecord(op, d, s, shares)),
                   quantity |-> shares]

(***************************************************************************)
(* strategy.py                                                             *)
(***************************************************************************)

\* The strategy calls buy or sell for day d and stock s, and goes on at cont
\* unless the call raises.
Issue(op, d, s, forced, cont) ==
    LET t == Trade(op, d, s)
        call == [op |-> op, day |-> d, stock |-> s, quantity |-> t.quantity,
                 forced |-> forced]
    IN  /\ portfolio' = t.portfolio
        /\ ledger' = t.ledger
        /\ issued' = IF Len(issued) < MaxIssued THEN Append(issued, call) ELSE issued
        /\ last' = [last EXCEPT ![s] = [op |-> op, day |-> d]]
        /\ pc' = IF t.status = "ok" THEN cont ELSE t.status

NoTrade == UNCHANGED <<portfolio, ledger, issued, last>>

Column(s) == [d \in 0..(Days - 1) |-> prices[d][s]]

\* The day before the last one.
DayBeforeLast == Days - 2

\* stock_prices.shape[0]-1, the day of the final sell.
LastDay == Days - 1

\* The day the day loop of each strategy starts at.
StartDay(st, p) ==
    IF st = "random" THEN 0
    ELSE IF st = "crossing_averages" THEN p.period_sma
    ELSE p.period

\* random, lines 37-47: one stock of one period.
RandomDecide ==
    /\ strat = "random"
    /\ pc = "loop"
    /\ LET wrap == stock = NStocks - 1
           cont == IF wrap /\ day + par.period >= Days THEN "final" ELSE "loop"
       IN  /\ \E decision \in {-1, 0, 1} :
                 IF decision = -1 THEN Issue("sell", day, stock, FALSE, cont)
                 ELSE IF decision = 1 THEN Issue("buy", day, stock, FALSE, cont)
                 ELSE NoTrade /\ pc' = cont
           /\ stock' = IF wrap THEN 0 ELSE stock + 1
           /\ day' = IF wrap THEN day + par.period ELSE day
    /\ UNCHANGED <<strat, prices, par, phase, alt, logA, genVars, maVars>>

\* random, lines 50-51: the final sell of one stock.
RandomFinalSell ==
    /\ strat = "random"
    /\ pc = "final"
    /\ Issue("sell", LastDay, stock, TRUE,
             IF stock = NStocks - 1 THEN "done" ELSE "final")
    /\ stock' = stock + 1
    /\ UNCHANGED <<day, strat, prices, par, phase, alt, logA, genVars, maVars>>

sma(s) == moving_average(Column(s), par.period_sma, <<>>)

fma(s) == moving_average(Column(s), par.period_fma, <<>>)

\* The fast average is at or above the slow one, whatever it was the day
\* before.
AtOrAbove(f, sl, d) == Ge(f[d], sl[d])

\* Line 89: the fast average crosses the slow one from below.
CrossingFromBelow(f, sl, d) == Lt(f[d - 1], sl[d - 1]) /\ Ge(f[d], sl[d])

\* Line 92: the fast average crosses the slow one from above.
CrossingFromAbove(f, sl, d) == Gt(f[d - 1], sl[d - 1]) /\ Le(f[d], sl[d])

\* crossing_averages, lines 88-94: one day of one stock.
CrossDay ==
    /\ strat = "crossing_averages"
    /\ pc = "loop"
    /\ day < Days
    /\ IF CrossingFromBelow(fma(stock), sma(stock), day)
       THEN Issue("buy", day, stock, FALSE, "loop")
       ELSE IF CrossingFromAbove(fma(stock), sma(stock), day)
       THEN Issue("sell", day, stock, FALSE, "loop")
       ELSE NoTrade /\ pc' = "loop"
    /\ day' = day + 1
    /\ UNCHANGED <<stock, strat, prices, par, phase, alt, logA, genVars, maVars>>

\* crossing_averages, line 97: the final sell of one stock, and the next stock.
CrossFinalSell ==
    /\ strat = "crossing_averages"
    /\ pc = "loop"
    /\ day >= Days
    /\ Issue("sell", LastDay, stock, TRUE,
             IF stock = NStocks - 1 THEN "done" ELSE "loop")
    /\ stock' = stock + 1
    /\ day' = par.period_sma
    /\ UNCHANGED <<strat, prices, par, phase, alt, logA, genVars, maVars>>

low_t == <<1, 4>>

high_t == <<3, 4>>

osc(s) == oscillator(Column(s), par.period, par.osc_type)

\* Line 139: the oscillator crosses the low threshold.
CrossedLow(o, d) == Gt(o[d - 1], low_t) /\ Le(o[d], low_t)

\* Line 143: the oscillator crosses the high threshold.
CrossedHigh(o, d) == Lt(o[d - 1], high_t) /\ Ge(o[d], high_t)

\* momentum, lines 138-148: the test of one day, and the move of the day index.
MomDay ==
    /\ strat = "momentum"
    /\ pc = "loop"
    /\ day < Days
    /\ IF CrossedLow(osc(stock), day)
       THEN day' = day + par.cool_down /\ pc' = "buy"
       ELSE IF CrossedHigh(osc(stock), day)
       THEN day' = day + par.cool_down /\ pc' = "sell"
       ELSE day' = day + 1 /\ pc' = "loop"
    /\ NoTrade
    /\ UNCHANGED <<stock, strat, prices, par, phase, alt, logA, genVars, maVars>>

\* momentum, lines 142 and 146: the call of buy or sell after a crossing.
MomTrade ==
    /\ strat = "momentum"
    /\ pc \in {"buy", "sell"}
    /\ Issue(pc, day, stock, FALSE, "loop")
    /\ UNCHANGED <<stock, day, strat, prices, par, phase, alt, logA, genVars, maVars>>

\* momentum, line 151: the final sell of one stock, and the next stock.
MomFinalSell ==
    /\ strat = "momentum"
    /\ pc = "loop"
    /\ day >= Days
    /\ Issue("sell", LastDay, stock, TRUE,
             IF stock = NStocks - 1 THEN "done" ELSE "loop")
    /\ stock' = stock + 1
    /\ day' = par.period
    /\ UNCHANGED <<strat, prices, par, phase, alt, logA, genVars, maVars>>

(***************************************************************************)
(* The runs checked.                                                       *)
(***************************************************************************)

\* The price matrices of days rows and N columns over the values vals, NaN
\* from some day on in every column (the shape generate_stock_prices returns).
Matrices(days, N, vals) ==
    { [d \in 0..(days - 1) |->
          IF d >= failure THEN [s \in 0..(N - 1) |-> NaN] ELSE m[d]] :
        m \in [0..(days - 1) -> [0..(N - 1) -> vals]], failure \in 0..days }

Shapes(cells) ==
    { sh \in (1..MaxDays) \X (1..MaxStocks) : sh[1] * sh[2] <= cells }

\* The amounts and fees tried: an amount below the fees, and two amounts that
\* one purchase spends whole.
Budgets == { <<1, 2>>, <<3, 1>>, <<4, 2>> }

NoParams ==
    [period |-> 0, period_sma |-> 0, period_fma |-> 0, osc_type |-> "",
     cool_down |-> 0, amount |-> 0, fees |-> 0]

RandomParams ==
    { [NoParams EXCEPT !.period = p, !.amount = b[1], !.fees = b[2]] :
        p \in 1..MaxPeriod, b \in Budgets }

\* The budgets whose amount covers the fees, as the docstrings ask.
Covering == { b \in Budgets : b[1] >= b[2] }

CrossingParams ==
    { [NoParams EXCEPT !.period_sma = ps, !.period_fma = pf,
                       !.amount = b[1], !.fees = b[2]] :
        ps \in 1..MaxPeriod, pf \in 1..MaxPeriod, b \in Covering }

MomentumParams ==
    { [NoParams EXCEPT !.period = p, !.osc_type = o, !.cool_down = c,
                       !.amount = b[1], !.fees = b[2]] :
        p \in 1..MaxPeriod, o \in {"stochastic", "RSI"}, c \in 0..MaxCool,
        b \in Covering }

\* The state after create_portfolio, at the head of the loops.
StartRun ==
    /\ pc = "loop"
    /\ stock = 0
    /\ day = StartDay(strat, par)
    /\ portfolio = create_portfolio(NStocks, par.amount)
    /\ ledger = <<>>
    /\ issued = <<>>
    /\ last = [s \in 0..(NStocks - 1) |-> NoCall]

SingleRun ==
    /\ phase = 0
    /\ alt = <<>>
    /\ logA = <<>>

InitRandom ==
    /\ strat = "random"
    /\ prices \in UNION { Matrices(sh[1], sh[2], 1..MaxPrice) : sh \in Shapes(RandCells) }
    /\ par \in RandomParams

InitCrossing ==
    /\ strat = "crossing_averages"
    /\ prices \in UNION { Matrices(sh[1], sh[2], 1..MaxPrice) : sh \in Shapes(MaxCells) }
    /\ par \in CrossingParams

InitMomentum ==
    /\ strat = "momentum"
    /\ prices \in UNION { Matrices(sh[1], sh[2], 1..MaxPrice) : sh \in Shapes(MaxCells) }
    /\ par \in MomentumParams

Init ==
    /\ IdleGen
    /\ IdleMA
    /\ InitRandom \/ InitCrossing \/ InitMomentum
    /\ StartRun
    /\ SingleRun

Next ==
    \/ RandomDecide
    \/ RandomFinalSell
    \/ CrossDay
    \/ CrossFinalSell
    \/ MomDay
    \/ MomTrade
    \/ MomFinalSell

Spec == Init /\ [][Next]_vars

\* A run of random on the matrices generate_stock_prices returns when its
\* failure fill starts late: some prices below zero are left in them.
InitBelowZero ==
    /\ IdleGen
    /\ IdleMA
    /\ strat = "random"
    /\ prices \in UNION { Matrices(sh[1], sh[2], {-1} \cup (1..MaxPrice)) :
                            sh \in Shapes(RandCells) }
    /\ par \in RandomParams
    /\ StartRun
    /\ SingleRun

NextRandom == RandomDecide \/ RandomFinalSell

SpecBelowZero == InitBelowZero /\ [][NextRandom]_vars

\* A run of momentum alone; the interpreter always takes the next step.
InitMom ==
    /\ IdleGen
    /\ IdleMA
    /\ InitMomentum
    /\ StartRun
    /\ SingleRun

NextMom == MomDay \/ MomTrade \/ MomFinalSell

FairSpecMom == InitMom /\ [][NextMom]_vars /\ WF_vars(NextMom)

\* A run of crossing_averages on one stock whose price rises every day, with
\* period_fma < period_sma < D and an amount that buys a share at any price.
Rising(f) == \A d \in DOMAIN f : d > 0 => f[d - 1] < f[d]

InitTrend ==
    /\ IdleGen
    /\ IdleMA
    /\ strat = "crossing_averages"
    /\ \E days \in 3..TrendDays :
         /\ prices \in { [d \in 0..(days - 1) |-> [s \in {0} |-> f[d]]] :
                           f \in { g \in [0..(days - 1) -> 1..TrendPrice] : Rising(g) } }
         /\ par \in { [NoParams EXCEPT !.period_sma = ps, !.period_fma = pf,
                                       !.amount = TrendPrice + 1, !.fees = 1] :
                         ps \in 2..(days - 1), pf \in 1..(days - 1) }
    /\ par.period_fma < par.period_sma
    /\ StartRun
    /\ SingleRun

NextTrend == CrossDay \/ CrossFinalSell

SpecTrend == InitTrend /\ [][NextTrend]_vars

\* A number for a row of prices, to take each pair of matrices once.
RowCode(row) ==
    SumSeq([i \in 1..Cardinality(DOMAIN row) |->
               IF IsNaN(row[i - 1]) THEN 0 ELSE row[i - 1] * (MaxPrice + 1) ^ (i - 1)])

\* Two runs of crossing_averages or momentum with the same arguments, on two
\* price matrices that differ on the last day and on no other.
InitPair ==
    /\ IdleGen
    /\ IdleMA
    /\ strat \in {"crossing_averages", "momentum"}
    /\ \E days \in 2..PairDays, N \in 1..MaxStocks :
         /\ prices \in Matrices(days, N, 1..MaxPrice)
         /\ ~HasNaN(prices[days - 2])
         /\ alt \in { [prices EXCEPT ![days - 1] = row] :
                         row \in { r \in [0..(N - 1) -> 1..MaxPrice] :
                                      RowCode(prices[days - 1]) < RowCode(r) } }
    /\ par \in { p \in MomentumParams \cup CrossingParams :
                    /\ (p.osc_type # "") <=> (strat = "momentum")
                    /\ p.amount = 3 }
    /\ StartRun
    /\ phase = 1
    /\ logA = <<>>

\* The first run has ended: the second starts, on the other matrix.
Restart ==
    /\ phase = 1
    /\ pc \in {"done", "error", "capped"}
    /\ phase' = 2
    /\ logA' = [calls |-> issued, pc |-> pc]
    /\ prices' = alt
    /\ alt' = prices
    /\ pc' = "loop"
    /\ stock' = 0
    /\ day' = StartDay(strat, par)
    /\ portfolio' = create_portfolio(NStocks, par.amount)
    /\ ledger' = <<>>
    /\ issued' = <<>>
    /\ last' = [s \in 0..(NStocks - 1) |-> NoCall]
    /\ UNCHANGED <<strat, par, genVars, maVars>>

NextPair ==
    \/ CrossDay
    \/ CrossFinalSell
    \/ MomDay
    \/ MomTrade
    \/ MomFinalSell
    \/ Restart

SpecPair == InitPair /\ [][NextPair]_vars

(***************************************************************************)
(* The claims about the strategies.                                        *)
(***************************************************************************)

StockSet == 0..(NStocks - 1)

\* C2: in every state of a run of any of the three strategies, each stock's
\* cash pool is >= 0.
C2_CashNeverNegative == \A s \in StockSet : portfolio.cash[s] >= 0

Bought(log) == \E i \in DOMAIN log : log[i].op = "buy"

\* C3 as claimed: on a strictly rising single-stock series longer than
\* period_sma, with period_fma < period_sma and an amount that affords a
\* share, a run of crossing_averages executes at least one buy.
C3_RisingSeriesBuys ==
    pc = "done" => \E i \in DOMAIN ledger : ledger[i].action = "buy"

\* C3 as amended: on such a series the fast average is above the slow one on
\* every day from period_sma - 1 on, crossing_averages never calls buy, and
\* its only call, the final sell, finds no shares: the ledger stays empty.
C3_RisingSeriesNeverBuys ==
    /\ \A d \in (par.period_sma - 1)..(Days - 1) : Gt(fma(0)[d], sma(0)[d])
    /\ ~Bought(issued)
    /\ ledger = <<>>
    /\ portfolio.shares_held[0] = 0
    /\ pc = "done" =>
          issued = << [op |-> "sell", day |-> Days - 1, stock |-> 0,
                       quantity |-> 0, forced |-> TRUE] >>

\* A run on five rising prices with period_sma = 3 and period_fma = 2 has
\* tested days 3 and 4 and has ended.
C3_Witness ==
    /\ pc = "done"
    /\ Days = 5
    /\ par.period_sma = 3
    /\ par.period_fma = 2
    /\ Len(issued) = 1

\* The calls of a run for the days up to d, the final sells apart.
UpTo(log, d) ==
    LET keep(c) == c.day <= d /\ ~c.forced
    IN  SelectSeq(log, keep)

\* C5: on two price matrices that agree on the days 0..d, two runs of
\* crossing_averages, or of momentum, with the same arguments make the same
\* calls of buy and sell for the days up to d, with the same quantities, the
\* final sells apart.  (Here d is the day before the last.)
C5_NoLookAhead ==
    (/\ phase = 2
     /\ pc \in {"done", "error"}
     /\ Len(issued) < MaxIssued
     /\ Len(logA.calls) < MaxIssued)
        => UpTo(issued, Days - 2) = UpTo(logA.calls, Days - 2)

\* The same for two runs that both reach their end: it holds.
NoLookAheadCompleted ==
    (phase = 2 /\ pc = "done" /\ logA.pc = "done")
        => UpTo(issued, Days - 2) = UpTo(logA.calls, Days - 2)

CallMade == Len(issued') = Len(issued) + 1

TheCall == issued'[Len(issued')]

\* C7: a buy with amount < fees, or with floor((amount - fees)/price) <= 0, or
\* at a NaN price, and a sell with no holdings or at a NaN price, leave the
\* cash, the holdings and the ledger as they were and raise no error.
C7_SkippedTradeChangesNothing ==
    [][(CallMade /\ TheCall.day \in 0..(Days - 1)) =>
          LET price == prices[TheCall.day][TheCall.stock]
              skipped ==
                  \/ /\ TheCall.op = "buy"
                     /\ \/ par.amount < par.fees
                        \/ IsNaN(price)
                        \/ FloorDiv(par.amount - par.fees, price) <= 0
                  \/ /\ TheCall.op = "sell"
                     /\ \/ portfolio.shares_held[TheCall.stock] = 0
                        \/ IsNaN(price)
          IN  skipped =>
                  /\ portfolio' = portfolio
                  /\ ledger' = ledger
                  /\ pc' # "error"]_vars

\* C8: in momentum, a crossing detected on day d moves the day index to
\* d + cool_down, the trade is called for that day, no day in between is
\* tested, and the days tested are strictly increasing.
C8_CoolDown ==
    [][strat = "momentum" =>
          /\ (pc = "loop" /\ day < Days) =>
                LET o == osc(stock)
                    low == Gt(o[day - 1], <<1, 4>>) /\ Le(o[day], <<1, 4>>)
                    high == ~low /\ Lt(o[day - 1], <<3, 4>>) /\ Ge(o[day], <<3, 4>>)
                IN  /\ low => (pc' = "buy" /\ day' = day + par.cool_down)
                    /\ high => (pc' = "sell" /\ day' = day + par.cool_down)
                    /\ day' > day
          /\ (pc \in {"buy", "sell"}) =>
                /\ last'[stock] = [op |-> pc, day |-> day]
                /\ day' = day]_vars

\* C9: a run of momentum terminates, whatever the prices and cool_down >= 0.
\* (A run cut at the ledger's bound counts as ended.)
C9_Terminates == <>(pc \in {"done", "error", "capped"})

\* C10: every call of buy and sell is for a day in 0..D-1.
C10_DayInRange ==
    \A s \in StockSet : last[s] # NoCall => last[s].day \in 0..(Days - 1)

=============================================================================
